---- MODULE Spec2Model ----
(***************************************************************************)
(* Model of the ring queue of src/rte_ring.h: a fixed-size circular queue  *)
(* whose producer/consumer head and tail indexes are moved with atomic     *)
(* loads, compare-and-swap and release stores.                             *)
(*                                                                         *)
(* Every shared-memory access of an enqueue or dequeue call is one step:   *)
(* the head load, the read of the opposing tail (with the local arithmetic *)
(* that follows it), the head CAS, each slot memcpy, the tail spin test    *)
(* and the tail store.  Memory is sequentially consistent (the code is     *)
(* x86-only, it includes emmintrin.h).  A call returns in the step of its  *)
(* last shared-memory access; its arguments (api, max, behavior) and its   *)
(* result (ret, and the output array of a dequeue) stay visible until the  *)
(* thread's next call, its other locals die with the call.                 *)
(***************************************************************************)
EXTENDS Integers, Sequences, FiniteSets, TLC

\* ---- bounds -------------------------------------------------------------
MaxSize == 4            \* ring sizes 2..MaxSize are explored
MaxVal  == 5            \* total number of objects offered to enqueue calls

\* ---- program constants --------------------------------------------------
RTE_RING_QUEUE_FIXED    == 0
RTE_RING_QUEUE_VARIABLE == 1
TwoPow16 == 65536
RingHeaderLen == 512    \* bytes kept for the four indexes ahead of r->data
SizeofInt == 4          \* element size of the demo, sizeof(int)

Producers == {"p1", "p2", "p3"}
Consumers == {"c1", "c2"}
Threads   == Producers \cup Consumers

VARIABLES
    ring,        \* the handle rte_ring_create gave: "none" before the call
    totallen,    \* rte_ring_create's totallen argument
    elemlen,     \* r->elemlen
    size,        \* r->size
    prod_head, prod_tail, cons_head, cons_tail,   \* the four shared indexes
    data,        \* r->data, one value per slot
    pc,          \* position of each thread inside its call
    max,         \* the requested count of the call (local max)
    n,           \* local n
    behavior,    \* behavior argument of the call
    old_head,    \* *old_head (prod_head / cons_head local of the caller)
    new_head,    \* *new_head (prod_next / cons_next local of the caller)
    avail,       \* free_entries (producer) or *entries (consumer)
    i,           \* copy loop index
    obj_table,   \* caller's array: objects to add, or the output array
    ret,         \* value returned by the thread's last call
    api,         \* which entry point the thread called
    accepted,    \* history: objects of enqueues that returned, in order
    returned,    \* history: objects handed out by dequeues that returned
    nextVal      \* number of objects offered so far (objects are 1,2,3,...)

vars == <<ring, totallen, elemlen, size, prod_head, prod_tail, cons_head, cons_tail, data, pc, max, n,
          behavior, old_head, new_head, avail, i, obj_table, ret, api,
          accepted, returned, nextVal>>

config == <<ring, totallen, elemlen, size>>
shared == <<prod_head, prod_tail, cons_head, cons_tail, data>>
locals == <<max, n, behavior, old_head, new_head, avail, i, obj_table, api>>
history == <<accepted, returned, nextVal>>

\* uint32_t arithmetic.  2^32 does not fit the integers of the model checker,
\* so a 32-bit value is never materialised: the operands of every expression
\* of the code are indexes below 2^16, an intermediate result x therefore lies
\* strictly between -2^31 and 2^31, and (uint32_t)x is x when x >= 0 and
\* x + 2^32 when x < 0.
\* 2^32 % m
Pow32Mod(m) == ((TwoPow16 % m) * (TwoPow16 % m)) % m
\* (uint32_t)x % m
U32Mod(x, m) == IF x >= 0 THEN x % m ELSE (Pow32Mod(m) + (x % m)) % m
\* lo <= (uint32_t)x <= hi, for 0 <= lo, hi < 2^31
U32Between(x, lo, hi) == x >= 0 /\ lo <= x /\ x <= hi

\* r->capacity = r->size - 1
capacity == size - 1

Min(a, b) == IF a < b THEN a ELSE b

Range(s) == {s[k] : k \in 1..Len(s)}

\* ---- rte_ring_create: sizes, zeroed indexes and zeroed memory -----------
Init ==
    /\ size \in 2..MaxSize
    /\ ring = "ring"
    /\ elemlen = SizeofInt
    /\ totallen = RingHeaderLen + SizeofInt * size
    /\ prod_head = 0 /\ prod_tail = 0 /\ cons_head = 0 /\ cons_tail = 0
    /\ data = [s \in 0..(size - 1) |-> 0]
    /\ pc = [t \in Threads |-> "idle"]
    /\ max = [t \in Threads |-> 0]
    /\ n = [t \in Threads |-> 0]
    /\ behavior = [t \in Threads |-> RTE_RING_QUEUE_FIXED]
    /\ old_head = [t \in Threads |-> 0]
    /\ new_head = [t \in Threads |-> 0]
    /\ avail = [t \in Threads |-> 0]
    /\ i = [t \in Threads |-> 0]
    /\ obj_table = [t \in Threads |-> <<>>]
    /\ ret = [t \in Threads |-> 0]
    /\ api = [t \in Threads |-> "none"]
    /\ accepted = <<>>
    /\ returned = <<>>
    /\ nextVal = 0

\* ---- the caller: one enqueue or dequeue call begins ---------------------
\* Objects handed to enqueue calls are the fresh values nextVal+1, nextVal+2, ...
FreshObjs(k) == [j \in 1..k |-> nextVal + j]

\* the output array of a dequeue call, zero-filled by the caller
BlankObjs(k) == [j \in 1..k |-> 0]

Begin(t, entry, k, b, table) ==
    /\ pc[t] = "idle"
    /\ pc' = [pc EXCEPT ![t] = "load"]
    /\ api' = [api EXCEPT ![t] = entry]
    /\ max' = [max EXCEPT ![t] = k]
    /\ n' = [n EXCEPT ![t] = k]
    /\ behavior' = [behavior EXCEPT ![t] = b]
    /\ obj_table' = [obj_table EXCEPT ![t] = table]
    /\ ret' = [ret EXCEPT ![t] = 0]
    /\ UNCHANGED <<config, shared, old_head, new_head, avail, i, accepted, returned>>

\* __rte_ring_do_enqueue(r, obj_table, k, b) called directly
do_enqueue_call(t, k, b) ==
    /\ t \in Producers
    /\ nextVal + k <= MaxVal
    /\ nextVal' = nextVal + k
    /\ Begin(t, "do_enqueue", k, b, FreshObjs(k))

\* rte_ring_enqueue_bulk(r, obj_table, k)
rte_ring_enqueue_bulk(t, k) ==
    /\ t \in Producers
    /\ nextVal + k <= MaxVal
    /\ nextVal' = nextVal + k
    /\ Begin(t, "enqueue_bulk", k, RTE_RING_QUEUE_VARIABLE, FreshObjs(k))

\* rte_ring_enqueue(r, obj)
rte_ring_enqueue(t) ==
    /\ t \in Producers
    /\ nextVal + 1 <= MaxVal
    /\ nextVal' = nextVal + 1
    /\ Begin(t, "enqueue", 1, RTE_RING_QUEUE_VARIABLE, FreshObjs(1))

\* __rte_ring_do_dequeue(r, obj_table, k, b) called directly
do_dequeue_call(t, k, b) ==
    /\ t \in Consumers
    /\ UNCHANGED nextVal
    /\ Begin(t, "do_dequeue", k, b, BlankObjs(k))

\* rte_ring_dequeue_bulk(r, obj_table, k)
rte_ring_dequeue_bulk(t, k) ==
    /\ t \in Consumers
    /\ UNCHANGED nextVal
    /\ Begin(t, "dequeue_bulk", k, RTE_RING_QUEUE_FIXED, BlankObjs(k))

\* rte_ring_dequeue(r, obj_p)
rte_ring_dequeue(t) ==
    /\ t \in Consumers
    /\ UNCHANGED nextVal
    /\ Begin(t, "dequeue", 1, RTE_RING_QUEUE_FIXED, BlankObjs(1))

\* The call of t returns r: the locals of the call die, the producer's
\* array goes back to its caller, the consumer's output array stays.
Return(t, r) ==
    /\ pc' = [pc EXCEPT ![t] = "idle"]
    /\ ret' = [ret EXCEPT ![t] = r]
    /\ n' = [n EXCEPT ![t] = 0]
    /\ old_head' = [old_head EXCEPT ![t] = 0]
    /\ new_head' = [new_head EXCEPT ![t] = 0]
    /\ avail' = [avail EXCEPT ![t] = 0]
    /\ i' = [i EXCEPT ![t] = 0]
    /\ obj_table' = [obj_table EXCEPT ![t] =
                        IF t \in Producers THEN <<>> ELSE obj_table[t]]
    /\ UNCHANGED <<max, behavior, api>>

\* ---- __rte_ring_move_prod_head / __rte_ring_move_cons_head --------------
\* (mutation: a retry keeps the count clamped by the failed iteration)
LoadHead_KeepN(t) ==
    /\ pc[t] = "load"
    /\ old_head' = [old_head EXCEPT ![t] =
                       IF t \in Producers THEN prod_head ELSE cons_head]
    /\ pc' = [pc EXCEPT ![t] = "check"]
    /\ UNCHANGED <<config, shared, max, n, behavior, new_head, avail, i, obj_table,
                   ret, api, history>>

\* n = max; *old_head = __atomic_load_n(head, ACQUIRE)
LoadHead(t) ==
    /\ pc[t] = "load"
    /\ n' = [n EXCEPT ![t] = max[t]]
    /\ old_head' = [old_head EXCEPT ![t] =
                       IF t \in Producers THEN prod_head ELSE cons_head]
    /\ pc' = [pc EXCEPT ![t] = "check"]
    /\ UNCHANGED <<config, shared, max, behavior, new_head, avail, i, obj_table,
                   ret, api, history>>

\* (mutation: the room is measured against size instead of capacity)
FreeEntries_Size(tail, head) == U32Mod(size + tail - head, size)

\* free_entries = (capacity + *r->cons_tail - *old_head) % size
FreeEntries(tail, head) == U32Mod(capacity + tail - head, size)

\* (mutation: the entry count is one too high)
Entries_OffByOne(tail, head) == U32Mod(tail - head + size + 1, size)

\* *entries = (*r->prod_tail - *old_head + size) % size
Entries(tail, head) == U32Mod(tail - head + size, size)

\* (mutation: the behaviour is ignored, every request is as-many-as-possible)
Clamp_Variable(k, b, a) == IF k > a THEN a ELSE k

\* (mutation: the behaviour is ignored, every request is all-or-nothing)
Clamp_Fixed(k, b, a) == IF k > a THEN 0 ELSE k

\* if (n > avail) n = (behavior == FIXED) ? 0 : avail
Clamp(k, b, a) == IF k > a THEN (IF b = RTE_RING_QUEUE_FIXED THEN 0 ELSE a) ELSE k

\* (mutation: the head is reduced modulo capacity instead of size)
NewHead_Capacity(head, k) == U32Mod(head + k, capacity)

\* *new_head = (*old_head + n) % size
NewHead(head, k) == U32Mod(head + k, size)

\* (mutation: the "if (n == 0) return 0" test is missing)
CheckRoom_NoEarlyReturn(t) ==
    /\ pc[t] = "check"
    /\ LET a == IF t \in Producers THEN FreeEntries(cons_tail, old_head[t])
                                   ELSE Entries(prod_tail, old_head[t])
           k == Clamp(n[t], behavior[t], a)
       IN /\ pc' = [pc EXCEPT ![t] = "cas"]
          /\ avail' = [avail EXCEPT ![t] = a]
          /\ n' = [n EXCEPT ![t] = k]
          /\ new_head' = [new_head EXCEPT ![t] = NewHead(old_head[t], k)]
          /\ UNCHANGED <<ret, max, behavior, old_head, i, obj_table, api>>
    /\ UNCHANGED <<config, shared, history>>

\* Read of the opposing tail, the room test, and either the early
\* "return 0" or the computation of *new_head.
CheckRoom(t) ==
    /\ pc[t] = "check"
    /\ LET a == IF t \in Producers THEN FreeEntries(cons_tail, old_head[t])
                                   ELSE Entries(prod_tail, old_head[t])
           k == Clamp(n[t], behavior[t], a)
       IN IF k = 0
            THEN Return(t, 0)
            ELSE /\ pc' = [pc EXCEPT ![t] = "cas"]
                 /\ avail' = [avail EXCEPT ![t] = a]
                 /\ n' = [n EXCEPT ![t] = k]
                 /\ new_head' = [new_head EXCEPT ![t] = NewHead(old_head[t], k)]
                 /\ UNCHANGED <<ret, max, behavior, old_head, i, obj_table, api>>
    /\ UNCHANGED <<config, shared, history>>

\* success = __atomic_compare_exchange_n(head, old_head, *new_head, ...)
CasSucceeds(cur, expected) == cur = expected

MoveHead(t) ==
    /\ pc[t] = "cas"
    /\ LET cur == IF t \in Producers THEN prod_head ELSE cons_head
       IN IF CasSucceeds(cur, old_head[t])
            THEN /\ IF t \in Producers
                      THEN prod_head' = new_head[t] /\ UNCHANGED cons_head
                      ELSE cons_head' = new_head[t] /\ UNCHANGED prod_head
                 /\ pc' = [pc EXCEPT ![t] = "copy"]
                 /\ UNCHANGED old_head
            ELSE /\ old_head' = [old_head EXCEPT ![t] = cur]
                 /\ pc' = [pc EXCEPT ![t] = "load"]
                 /\ UNCHANGED <<prod_head, cons_head>>
    /\ UNCHANGED <<config, prod_tail, cons_tail, data, max, n, behavior, new_head,
                   avail, i, obj_table, ret, api, history>>

\* ---- the copy loops of __rte_ring_do_enqueue / __rte_ring_do_dequeue ----
\* slot index (head + i) % size
Slot(head, k) == U32Mod(head + k, size)

CopyIn(t) ==
    /\ t \in Producers
    /\ pc[t] = "copy"
    /\ i[t] < n[t]
    /\ data' = [data EXCEPT ![Slot(old_head[t], i[t])] = obj_table[t][i[t] + 1]]
    /\ i' = [i EXCEPT ![t] = i[t] + 1]
    /\ UNCHANGED <<config, prod_head, prod_tail, cons_head, cons_tail, pc, max, n,
                   behavior, old_head, new_head, avail, obj_table, ret, api,
                   history>>

CopyOut(t) ==
    /\ t \in Consumers
    /\ pc[t] = "copy"
    /\ i[t] < n[t]
    /\ obj_table' = [obj_table EXCEPT ![t][i[t] + 1] = data[Slot(old_head[t], i[t])]]
    /\ i' = [i EXCEPT ![t] = i[t] + 1]
    /\ UNCHANGED <<config, shared, pc, max, n, behavior, old_head, new_head,
                   avail, ret, api, history>>

\* ---- update_tail --------------------------------------------------------
\* while (*tail != old_val) _mm_pause();
TailReached(tail, old_val) == tail = old_val

WaitTail(t) ==
    /\ pc[t] = "copy"
    /\ i[t] = n[t]
    /\ TailReached(IF t \in Producers THEN prod_tail ELSE cons_tail, old_head[t])
    /\ pc' = [pc EXCEPT ![t] = "store"]
    /\ UNCHANGED <<config, shared, locals, ret, history>>

\* __atomic_store_n(tail, new_val, RELEASE); return n
StoreTail(t) ==
    /\ pc[t] = "store"
    /\ IF t \in Producers
         THEN /\ prod_tail' = new_head[t]
              /\ accepted' = accepted \o SubSeq(obj_table[t], 1, n[t])
              /\ UNCHANGED <<cons_tail, returned>>
         ELSE /\ cons_tail' = new_head[t]
              /\ returned' = returned \o SubSeq(obj_table[t], 1, n[t])
              /\ UNCHANGED <<prod_tail, accepted>>
    /\ Return(t, n[t])
    /\ UNCHANGED <<config, prod_head, cons_head, data, nextVal>>

\* ---- specifications -----------------------------------------------------
Behaviors == {RTE_RING_QUEUE_FIXED, RTE_RING_QUEUE_VARIABLE}

Step(t) ==
    \/ LoadHead(t)
    \/ CheckRoom(t)
    \/ MoveHead(t)
    \/ CopyIn(t)
    \/ CopyOut(t)
    \/ WaitTail(t)
    \/ StoreTail(t)

\* Spec: two producers and one consumer run the single-object entry points
\* concurrently, their steps interleaving freely.
MPMCThreads == {"p1", "p2", "c1"}

Next ==
    \E t \in MPMCThreads :
        \/ rte_ring_enqueue(t)
        \/ rte_ring_dequeue(t)
        \/ Step(t)

Spec == Init /\ [][Next]_vars

\* SpecSPSC: one producer and one consumer, bulk calls of either behaviour,
\* steps interleaving freely.
SPSCThreads == {"p1", "c1"}

NextSPSC ==
    \E t \in SPSCThreads :
        \/ \E k \in 0..size : rte_ring_enqueue_bulk(t, k)
        \/ \E k \in 0..size : do_enqueue_call(t, k, RTE_RING_QUEUE_FIXED)
        \/ \E k \in 0..size : rte_ring_dequeue_bulk(t, k)
        \/ \E k \in 0..size : do_dequeue_call(t, k, RTE_RING_QUEUE_VARIABLE)
        \/ Step(t)

SpecSPSC == Init /\ [][NextSPSC]_vars

\* SpecSeq: calls run one at a time: a call begins only when no other call
\* is in progress.  Every entry point is used.
Quiescent == \A t \in Threads : pc[t] = "idle"

NextSeq ==
    \E t \in SPSCThreads :
        \/ Quiescent /\ \E k \in 0..size, b \in Behaviors : do_enqueue_call(t, k, b)
        \/ Quiescent /\ \E k \in 0..size : rte_ring_enqueue_bulk(t, k)
        \/ Quiescent /\ rte_ring_enqueue(t)
        \/ Quiescent /\ \E k \in 0..size, b \in Behaviors : do_dequeue_call(t, k, b)
        \/ Quiescent /\ \E k \in 0..size : rte_ring_dequeue_bulk(t, k)
        \/ Quiescent /\ rte_ring_dequeue(t)
        \/ Step(t)

SpecSeq == Init /\ [][NextSeq]_vars

\* ---- history ------------------------------------------------------------
IsPrefix(s, q) == Len(s) <= Len(q) /\ SubSeq(q, 1, Len(s)) = s

NoDuplicates(s) == \A a, b \in 1..Len(s) : a # b => s[a] # s[b]

\* objects accepted by a returned enqueue and not yet handed out by a
\* returned dequeue
Outstanding == Range(accepted) \ Range(returned)

\* the output arrays of the dequeues in progress
HeldByConsumers == UNION {Range(obj_table[c]) : c \in {d \in Consumers : pc[d] # "idle"}}

InRing == {data[s] : s \in 0..(size - 1)}

\* the queue a reference FIFO holds: what was accepted and not yet returned
RefQueue == SubSeq(accepted, Len(returned) + 1, Len(accepted))

\* t leaves its call in this step
Returns(t) == pc[t] # "idle" /\ pc'[t] = "idle"

\* ---- C1 -----------------------------------------------------------------
\* C1: with two producers and a consumer running concurrently, every object
\* whose enqueue returned success is handed out by exactly one dequeue: no
\* object is handed out twice, only accepted objects are handed out, and an
\* accepted object that no dequeue has returned yet is still in its slot or
\* in the output array of a dequeue in progress (not lost, not overwritten).
C1_ExactlyOnce ==
    /\ NoDuplicates(returned)
    /\ Range(returned) \subseteq Range(accepted)
    /\ Outstanding \subseteq (InRing \cup HeldByConsumers)

\* ---- C2 -----------------------------------------------------------------
\* C2: with one producer and one consumer interleaving freely, the objects
\* returned by dequeues are at every moment a prefix of the objects accepted
\* by enqueues, also after the indexes have wrapped around the ring.
C2_FifoPrefix == IsPrefix(returned, accepted)

\* more objects than the ring has slots went through it, while the producer
\* is in the middle of a call
C2_Witness ==
    /\ Len(returned) > size
    /\ pc["p1"] = "copy"
    /\ C2_FifoPrefix

\* ---- C3 -----------------------------------------------------------------
\* what a bounded FIFO grants of a request for k with `room` at hand
RefGrant(k, b, room) ==
    IF k <= room THEN k
    ELSE IF b = RTE_RING_QUEUE_FIXED THEN 0 ELSE room

\* C3: when calls run one at a time, every call returns what a reference
\* bounded FIFO of capacity size-1 returns, for every ring size, powers of
\* two or not: an enqueue returns the count the reference accepts and adds
\* exactly those objects, a dequeue returns the count the reference hands
\* out and its output array holds the oldest objects of the reference queue,
\* in order.
C3_RefinesFifo ==
    [][\A t \in SPSCThreads : Returns(t) =>
          IF t \in Producers
            THEN LET g == RefGrant(max[t], behavior[t], (size - 1) - Len(RefQueue))
                 IN /\ ret'[t] = g
                    /\ accepted' = accepted \o SubSeq(obj_table[t], 1, g)
                    /\ returned' = returned
            ELSE LET g == RefGrant(max[t], behavior[t], Len(RefQueue))
                 IN /\ ret'[t] = g
                    /\ SubSeq(obj_table'[t], 1, g) = SubSeq(RefQueue, 1, g)
                    /\ returned' = returned \o SubSeq(RefQueue, 1, g)
                    /\ accepted' = accepted]_vars

\* on a ring of three slots a dequeue of two returned after the indexes
\* wrapped
C3_Witness ==
    /\ size = 3
    /\ Quiescent
    /\ api["c1"] = "dequeue_bulk" /\ max["c1"] = 2 /\ ret["c1"] = 2
    /\ Len(returned) >= 4
    /\ IsPrefix(returned, accepted)

\* ---- C4 -----------------------------------------------------------------
\* C4: in every reachable state the occupied count computed from the stored
\* indexes as (prod_tail - cons_head) mod 2^32 lies between 0 and capacity.
C4_OccupiedU32 == U32Between(prod_tail - cons_head, 0, capacity)

\* ---- C5 -----------------------------------------------------------------
\* C5: a FIXED enqueue that asks for more than the free space of the ring
\* (capacity minus the objects it holds) changes none of the four indexes
\* and no slot in any of its steps, never reaches the CAS, and returns 0.
C5_FixedEnqueueFails ==
    [][\A t \in Producers :
          (/\ pc[t] # "idle"
           /\ behavior[t] = RTE_RING_QUEUE_FIXED
           /\ max[t] > capacity - Len(RefQueue))
          => /\ shared' = shared
             /\ pc'[t] \in {"check", "idle"}
             /\ Returns(t) => (ret'[t] = 0 /\ accepted' = accepted)]_vars

\* a FIXED enqueue of one object on a full ring has returned 0
C5_Witness ==
    /\ Quiescent
    /\ api["p1"] = "do_enqueue" /\ behavior["p1"] = RTE_RING_QUEUE_FIXED
    /\ max["p1"] = 1 /\ ret["p1"] = 0
    /\ Len(RefQueue) = capacity
    /\ size = 3

C7_EnqueueBulkZeroOrN ==
    \A t \in Producers :
        (pc[t] = "idle" /\ api[t] = "enqueue_bulk") => ret[t] \in {0, max[t]}

C9_StatusCodes ==
    [][\A t \in SPSCThreads :
          (Returns(t) /\ api[t] \in {"enqueue", "dequeue"}) =>
             IF t \in Producers
               THEN /\ (ret'[t] = 0) <=> (accepted' # accepted)
                    /\ (ret'[t] < 0) <=> (accepted' = accepted)
               ELSE /\ (ret'[t] = 0) <=> (returned' # returned)
                    /\ (ret'[t] < 0) <=> (returned' = returned)]_vars

\* ---- C10 ----------------------------------------------------------------
AllEqual ==
    prod_head = prod_tail /\ prod_tail = cons_head /\ cons_head = cons_tail

\* C10: calls running one at a time, an enqueue of capacity objects that
\* finds the ring empty and quiescent (producer tail and both consumer
\* indexes equal, at any offset) returns capacity and accepts every object;
\* a dequeue of capacity objects from the ring so filled returns capacity,
\* hands out all of them in order, and leaves the four indexes equal.
C10_RoundTrip ==
    [][/\ \A t \in Producers :
            (/\ Returns(t) /\ max[t] = capacity
             /\ prod_tail = cons_head /\ cons_head = cons_tail)
            => /\ ret'[t] = capacity
               /\ accepted' = accepted \o obj_table[t]
       /\ \A t \in Consumers :
            (/\ Returns(t) /\ max[t] = capacity
             /\ Len(RefQueue) = capacity)
            => /\ ret'[t] = capacity
               /\ obj_table'[t] = RefQueue
               /\ returned' = accepted'
               /\ AllEqual']_vars

\* on a ring of three slots, a round trip of two objects that began at
\* offset 1 has completed
C10_Witness ==
    /\ size = 3 /\ Quiescent /\ AllEqual
    /\ max["p1"] = 2 /\ ret["p1"] = 2
    /\ max["c1"] = 2 /\ ret["c1"] = 2
    /\ Len(accepted) = 3 /\ returned = accepted

\* ---- C11 ----------------------------------------------------------------
\* C11: a call with n = 0, enqueue or dequeue, of either behaviour, whatever
\* the ring holds and whatever the other side is doing, never reaches the
\* CAS: each of its steps leaves the four indexes and every slot unchanged,
\* and it returns 0 from the room test with its array and the histories
\* untouched.
C11_ZeroRequest ==
    [][\A t \in Threads :
          (pc[t] # "idle" /\ max[t] = 0 /\ pc'[t] # pc[t])
          => /\ shared' = shared
             /\ pc[t] = "load" => pc'[t] = "check"
             /\ pc[t] = "check" => /\ pc'[t] = "idle"
                                   /\ ret'[t] = 0
                                   /\ obj_table'[t] = obj_table[t] \/ t \in Producers
                                   /\ accepted' = accepted
                                   /\ returned' = returned
             /\ pc[t] \in {"load", "check"}]_vars

\* a FIXED enqueue of nothing has returned 0 on a full ring while the
\* consumer holds a reservation
C11_Witness ==
    /\ pc["p1"] = "idle" /\ api["p1"] = "do_enqueue"
    /\ behavior["p1"] = RTE_RING_QUEUE_FIXED
    /\ max["p1"] = 0 /\ ret["p1"] = 0
    /\ Len(RefQueue) = capacity
    /\ pc["c1"] = "copy" /\ i["c1"] = 0

\* ---- rte_ring_create as an operation ------------------------------------
\* SpecCreate: the ring does not exist yet; rte_ring_create is called with a
\* buffer length and an element size, and the ring it gives, when it has at
\* least two slots, is then used by single-object calls one at a time.
ElemLens == {0, SizeofInt, 2 * SizeofInt}

InitCreate ==
    /\ ring = "none"
    /\ totallen \in RingHeaderLen..(RingHeaderLen + SizeofInt * MaxSize)
    /\ elemlen \in ElemLens
    /\ size = 0
    /\ prod_head = 0 /\ prod_tail = 0 /\ cons_head = 0 /\ cons_tail = 0
    /\ data = [s \in {} |-> 0]
    /\ pc = [t \in Threads |-> "idle"]
    /\ max = [t \in Threads |-> 0]
    /\ n = [t \in Threads |-> 0]
    /\ behavior = [t \in Threads |-> RTE_RING_QUEUE_FIXED]
    /\ old_head = [t \in Threads |-> 0]
    /\ new_head = [t \in Threads |-> 0]
    /\ avail = [t \in Threads |-> 0]
    /\ i = [t \in Threads |-> 0]
    /\ obj_table = [t \in Threads |-> <<>>]
    /\ ret = [t \in Threads |-> 0]
    /\ api = [t \in Threads |-> "none"]
    /\ accepted = <<>>
    /\ returned = <<>>
    /\ nextVal = 0

\* r->size = (totallen - 512) / elemlen, for totallen >= 512
RingSize(len, elem) == (len - RingHeaderLen) \div elem

\* rte_ring_create(p, totallen, elemlen).  No argument is tested.  With
\* elemlen = 0 the division is undefined; the x86 build traps on it.
rte_ring_create ==
    /\ ring = "none"
    /\ IF elemlen = 0
         THEN /\ ring' = "trap"
              /\ UNCHANGED <<size, shared>>
         ELSE /\ ring' = "ring"
              /\ size' = RingSize(totallen, elemlen)
              /\ prod_head' = 0 /\ prod_tail' = 0
              /\ cons_head' = 0 /\ cons_tail' = 0
              /\ data' = [s \in 0..(size' - 1) |-> 0]
    /\ UNCHANGED <<totallen, elemlen, pc, locals, ret, history>>

\* a ring was created and has a slot to spare
Usable == ring = "ring" /\ size >= 2

NextCreate ==
    \/ rte_ring_create
    \/ \E t \in SPSCThreads :
          \/ Usable /\ Quiescent /\ rte_ring_enqueue(t)
          \/ Usable /\ Quiescent /\ rte_ring_dequeue(t)
          \/ Usable /\ Step(t)

SpecCreate == InitCreate /\ [][NextCreate]_vars

\* ---- C12 ----------------------------------------------------------------
IsPowerOfTwo(x) == \E k \in 0..15 : x = 2^k

\* C12: rte_ring_create gives a ring handle only for a valid configuration:
\* a non-zero element size, a buffer that holds the index area and at least
\* one element, and a derived size that is a power of two.
C12_CreateRejectsInvalid ==
    ring = "ring" =>
       /\ elemlen # 0
       /\ totallen >= RingHeaderLen + elemlen
       /\ IsPowerOfTwo(size)

\* ---- reservations in flight ---------------------------------------------
\* Spec3P: three producers and one consumer.  p1 enqueues single objects
\* again and again, p2 makes one call of rte_ring_enqueue and p3 one call
\* of rte_ring_enqueue_bulk for a pair (api[t] = "none": t has made no call
\* yet), c1 dequeues single objects; all steps interleave freely.
Threads3P == {"p1", "p2", "p3", "c1"}

Next3P ==
    \E t \in Threads3P :
        \/ t = "p1" /\ rte_ring_enqueue(t)
        \/ t = "p2" /\ api[t] = "none" /\ rte_ring_enqueue(t)
        \/ t = "p3" /\ api[t] = "none" /\ rte_ring_enqueue_bulk(t, 2)
        \/ rte_ring_dequeue(t)
        \/ Step(t)

Spec3P == Init /\ [][Next3P]_vars

\* the tail of t's side
TailOf(t) == IF t \in Producers THEN prod_tail ELSE cons_tail

SameSide(t, u) == (t \in Producers) <=> (u \in Producers)

\* t's head CAS succeeded and its tail store has not happened yet
InFlight(t) == pc[t] \in {"copy", "store"}

\* the slots of t's reservation [old_head, new_head)
Owned(t) == {Slot(old_head[t], j) : j \in 0..(n[t] - 1)}

\* those of them t's copy loop has not reached yet
Pending(t) == {Slot(old_head[t], j) : j \in i[t]..(n[t] - 1)}

\* the slots the tail of t's side moves over when t stores new_head[t]
Passed(t) ==
    {Slot(TailOf(t), j) : j \in 0..(((new_head[t] - TailOf(t)) % size) - 1)}

\* ---- C13 ----------------------------------------------------------------
\* C13: whenever a thread stores the tail of its side, the tail still holds
\* the start of that thread's reservation (so reservations are published in
\* the order of their head CAS), and the store moves the tail over no slot
\* of another in-flight reservation of that side whose copy is unfinished.
C13_PublishInOrder ==
    [][\A t \in Threads :
          (pc[t] = "store" /\ pc'[t] = "idle")
          => /\ TailOf(t) = old_head[t]
             /\ \A u \in Threads \ {t} :
                   (SameSide(t, u) /\ InFlight(u))
                   => Pending(u) \cap Passed(t) = {}]_vars

\* ---- C14 ----------------------------------------------------------------
\* C14: at every moment the slot ranges of the reservations in flight on
\* one side are pairwise disjoint: no slot is owned by two producers, and
\* none by two consumers.
C14_DisjointReservations ==
    \A t, u \in Threads :
        (t # u /\ SameSide(t, u) /\ InFlight(t) /\ InFlight(u))
        => Owned(t) \cap Owned(u) = {}

\* ---- C15 ----------------------------------------------------------------
\* C15: from the moment a consumer's head CAS succeeds, every slot it has
\* still to copy out holds an object of an enqueue that has stored
\* prod_tail, and no enqueue in flight owns that slot: a dequeue never
\* reads a slot that is unwritten, only reserved, or being copied into.
C15_ReadsPublishedSlots ==
    \A c \in Consumers :
        InFlight(c) =>
            \A s \in Pending(c) :
                /\ data[s] \in Range(accepted)
                /\ \A p \in Producers : InFlight(p) => s \notin Owned(p)

\* ---- C20 ----------------------------------------------------------------
\* C20: from the moment a producer's head CAS succeeds, no slot it has still
\* to write holds an accepted object that no dequeue has returned yet, and
\* no dequeue in flight owns that slot: a slot is written again only after
\* the consumer that read it has stored cons_tail.
C20_WritesFreeSlots ==
    \A p \in Producers :
        InFlight(p) =>
            \A s \in Pending(p) :
                /\ data[s] \notin Outstanding
                /\ \A c \in Consumers : InFlight(c) => s \notin Owned(c)

\* ---- C16 ----------------------------------------------------------------
\* C16: the indexes are free-running counters, not reduced into [0, size):
\* once size or more objects have been enqueued in total, and no enqueue is
\* in progress, prod_head and prod_tail hold a value of at least size.
C16_FreeRunningIndexes ==
    (Len(accepted) >= size /\ \A p \in Producers : pc[p] = "idle")
    => /\ prod_head >= size
       /\ prod_tail = prod_head

\* ---- C17 ----------------------------------------------------------------
\* the number of slots reserved by the calls of S that are in flight
RECURSIVE ReservedBy(_)
ReservedBy(S) ==
    IF S = {} THEN 0
    ELSE LET t == CHOOSE u \in S : TRUE
         IN (IF InFlight(t) THEN n[t] ELSE 0) + ReservedBy(S \ {t})

\* C17: in every reachable state (prod_head - prod_tail) mod 2^32 is the
\* number of slots reserved by enqueues that have not stored prod_tail yet,
\* and (cons_head - cons_tail) mod 2^32 is the same for dequeues; a side
\* with no reservation in flight has head = tail.
C17_HeadMinusTail ==
    /\ U32Between(prod_head - prod_tail, ReservedBy(Producers), ReservedBy(Producers))
    /\ U32Between(cons_head - cons_tail, ReservedBy(Consumers), ReservedBy(Consumers))

\* ---- C18 ----------------------------------------------------------------
\* t has finished its copy and waits in update_tail for a tail value that
\* is not the start of its reservation
Spinning(t) == pc[t] = "copy" /\ i[t] = n[t] /\ ~TailReached(TailOf(t), old_head[t])

\* C18: every started call returns when the threads are scheduled fairly
\* and make finitely many calls.  In particular no reachable state has a
\* thread spinning in update_tail while every other thread is outside a
\* call: from such a state the spinning thread has no step, and if no
\* further call is made it never returns.
C18_NoThreadSpinsForever ==
    \A t \in Threads :
        Spinning(t) => \E u \in Threads \ {t} : pc[u] # "idle"

\* ---- C19 ----------------------------------------------------------------
\* SpecMP: two producers and one consumer making requests for one or two
\* objects: p1 through rte_ring_enqueue_bulk (as many as possible), p2
\* through __rte_ring_do_enqueue with RTE_RING_QUEUE_FIXED, c1 through
\* rte_ring_dequeue_bulk; all steps interleave freely.
NextMP ==
    \E t \in MPMCThreads :
        \/ t = "p1" /\ \E k \in 1..2 : rte_ring_enqueue_bulk(t, k)
        \/ t = "p2" /\ \E k \in 1..2 : do_enqueue_call(t, k, RTE_RING_QUEUE_FIXED)
        \/ \E k \in 1..2 : rte_ring_dequeue_bulk(t, k)
        \/ Step(t)

SpecMP == Init /\ [][NextMP]_vars

\* the head of t's side
HeadOf(t) == IF t \in Producers THEN prod_head ELSE cons_head

\* what the room test of t finds now: free entries for a producer, stored
\* entries for a consumer, measured from the head value t loaded
Room(t) ==
    IF t \in Producers THEN FreeEntries(cons_tail, old_head[t])
                       ELSE Entries(prod_tail, old_head[t])

\* C19: every iteration of the head-reservation loop, the first one and
\* each restart after a failed CAS, begins with the caller's requested
\* count and a fresh load of the head, and measures the room from that head
\* and the opposing tail as read in the same iteration.  The count granted
\* when the CAS succeeds, and returned by the call, is min(requested, room)
\* under VARIABLE and requested-or-0 under FIXED for the room of that last
\* iteration; a count clamped in a failed iteration is never carried over.
C19_RetryKeepsRequest ==
    [][\A t \in Threads :
          /\ (pc[t] = "load" /\ pc'[t] = "check")
             => /\ n'[t] = max[t]
                /\ old_head'[t] = HeadOf(t)
          /\ (pc[t] = "check" /\ pc'[t] = "cas")
             => /\ avail'[t] = Room(t)
                /\ n'[t] = RefGrant(max[t], behavior[t], Room(t))
                /\ n'[t] > 0
          /\ (pc[t] = "check" /\ pc'[t] = "idle")
             => /\ RefGrant(max[t], behavior[t], Room(t)) = 0
                /\ ret'[t] = 0
          /\ (pc[t] = "cas" /\ pc'[t] = "copy")
             => /\ HeadOf(t) = old_head[t]
                /\ n[t] = RefGrant(max[t], behavior[t], avail[t])
          /\ (pc[t] = "store" /\ pc'[t] = "idle")
             => ret'[t] = RefGrant(max[t], behavior[t], avail[t])]_vars

\* p1's CAS failed in an iteration that had clamped its request for two
\* objects to the single free entry (avail is still that iteration's room);
\* the restart has loaded the head again, the count is two again and by now
\* there is room for both
C19_Witness ==
    /\ pc["p1"] = "check"
    /\ max["p1"] = 2
    /\ avail["p1"] = 1
    /\ n["p1"] = 2
    /\ Room("p1") >= 2
====
